---- MODULE Spec2Model ----
(***************************************************************************)
(* RTTY transmitter firmware: Baudot codec, bitstream generator, the       *)
(* AT+send keying loop and the AT+play EEPROM playback with its Timer2     *)
(* interrupt handler.                                                      *)
(***************************************************************************)
EXTENDS Integers, Sequences, FiniteSets, TLC

VARIABLES
    \* --- one call of getBaudotCode on two characters (SpecLookup) ---
    lk_c, lk_d, lk_mode, lk_code_c, lk_code_d, lk_pc,
    \* --- one call of generateBaudotString (SpecEnc) ---
    gen_text, gen_bits, gen_pc,
    \* --- the firmware (Spec, FairSpec) ---
    pc,                   \* position of the main sequence (loop / exec)
    sreg_I,               \* global interrupt enable (cli / sei)
    TIMSK1, TIMSK2,       \* timer interrupt mask registers
    saved_TIMSK1, playback_active, ee_sample, consecutive_ff_count,
    EE_CS,                \* EEPROM chip select line (PORTC bit PC0): 1 high, 0 low
    ee_data, ee_run,      \* contents of the serial memory device
    ee_pos,               \* bytes clocked out of the device since the read command
    setParams, phaseIncrement,
    bits, bit_i, incHigh, incLow,
    timsk1_at_play,       \* history: TIMSK1 when the current AT+play was issued
    send_msg,             \* history: the message of the current AT+send, as typed
    phaseAccumulator,     \* uint32_t as [hi, lo], two 16-bit halves
    dac,                  \* the last SPI transaction to the MCP4901: CS, byte, byte, CS
    dds_ticks             \* history: number of Timer1 interrupts served

lkVars == <<lk_c, lk_d, lk_mode, lk_code_c, lk_code_d, lk_pc>>
genVars == <<gen_text, gen_bits, gen_pc>>
fwVars == <<pc, sreg_I, TIMSK1, TIMSK2, saved_TIMSK1, playback_active, ee_sample,
            consecutive_ff_count, EE_CS, ee_data, ee_run, ee_pos, setParams,
            phaseIncrement, bits, bit_i, incHigh, incLow, timsk1_at_play,
            send_msg, phaseAccumulator, dac, dds_ticks>>
vars == <<lkVars, genVars, fwVars>>

-----------------------------------------------------------------------------
(* Baudot codec *)

baudotLTRS == <<1,1,1,1,1>>
baudotFIGS == <<1,1,0,1,1>>

\* The case labels of the two switch statements.
LtrsChars == {"A","B","C","D","E","F","G","H","I","J","K","L","M","N","O","P","Q",
              "R","S","T","U","V","W","X","Y","Z","\n"," ","\r"}
FigsChars == {"-","?",":","$","3","!","&","#","8","4","(",")",".",",","9","0","1",
              "'","5","7",";","2","/","6","\"","\n"," ","\r"}

\* What String::operator[] yields for an index past the end.
NUL == ""

LtrsCode(c) ==
    CASE c = "A" -> <<1,1,0,0,0>>
      [] c = "B" -> <<1,0,0,1,1>>
      [] c = "C" -> <<0,1,1,1,0>>
      [] c = "D" -> <<1,0,0,1,0>>
      [] c = "E" -> <<1,0,0,0,0>>
      [] c = "F" -> <<1,0,1,1,0>>
      [] c = "G" -> <<0,1,0,1,1>>
      [] c = "H" -> <<0,0,1,0,1>>
      [] c = "I" -> <<0,1,1,0,0>>
      [] c = "J" -> <<1,1,0,1,0>>
      [] c = "K" -> <<1,1,1,1,0>>
      [] c = "L" -> <<0,1,0,0,1>>
      [] c = "M" -> <<0,0,1,1,1>>
      [] c = "N" -> <<0,0,1,1,0>>
      [] c = "O" -> <<0,0,0,1,1>>
      [] c = "P" -> <<0,1,1,0,1>>
      [] c = "Q" -> <<1,1,1,0,1>>
      [] c = "R" -> <<0,1,0,1,0>>
      [] c = "S" -> <<1,0,1,0,0>>
      [] c = "T" -> <<0,0,0,0,1>>
      [] c = "U" -> <<1,1,1,0,0>>
      [] c = "V" -> <<0,1,1,1,1>>
      [] c = "W" -> <<1,1,0,0,1>>
      [] c = "X" -> <<1,0,1,1,1>>
      [] c = "Y" -> <<1,0,1,0,1>>
      [] c = "Z" -> <<1,0,0,0,1>>
      [] c = "\n" -> <<0,1,0,0,0>>
      [] c = " " -> <<0,0,1,0,0>>
      [] c = "\r" -> <<0,0,0,1,0>>
      [] OTHER -> <<>>

FigsCode(c) ==
    CASE c = "-" -> <<1,1,0,0,0>>
      [] c = "?" -> <<1,0,0,1,1>>
      [] c = ":" -> <<0,1,1,1,0>>
      [] c = "$" -> <<1,0,0,1,0>>
      [] c = "3" -> <<1,0,0,0,0>>
      [] c = "!" -> <<1,0,1,1,0>>
      [] c = "&" -> <<0,1,0,1,1>>
      [] c = "#" -> <<0,0,1,0,1>>
      [] c = "8" -> <<0,1,1,0,0>>
      [] c = "4" -> <<0,1,0,1,0>>
      [] c = "(" -> <<1,1,1,1,0>>
      [] c = ")" -> <<0,1,0,0,1>>
      [] c = "." -> <<0,0,1,1,1>>
      [] c = "," -> <<0,0,1,1,0>>
      [] c = "9" -> <<0,0,0,1,1>>
      [] c = "0" -> <<0,1,1,0,1>>
      [] c = "1" -> <<1,1,1,0,1>>
      [] c = "'" -> <<0,1,0,1,0>>
      [] c = "5" -> <<0,0,0,0,1>>
      [] c = "7" -> <<1,1,1,0,0>>
      [] c = ";" -> <<0,1,1,1,1>>
      [] c = "2" -> <<1,1,0,0,1>>
      [] c = "/" -> <<1,0,1,1,1>>
      [] c = "6" -> <<1,0,1,0,1>>
      [] c = "\"" -> <<1,0,0,0,1>>
      [] c = "\n" -> <<0,1,0,0,0>>
      [] c = " " -> <<0,0,1,0,0>>
      [] c = "\r" -> <<0,0,0,1,0>>
      [] OTHER -> <<>>

\* A Letters table in which L was given the code of H.
getBaudotCode_SharedCode(c, mode) ==
    IF mode = "LTRS" THEN (IF c = "L" THEN LtrsCode("H") ELSE LtrsCode(c))
    ELSE IF mode = "FIGS" THEN FigsCode(c)
    ELSE <<>>

\* A Figures table whose open parenthesis carries the code of the FIGS shift.
getBaudotCode_ShiftAsChar(c, mode) ==
    IF mode = "LTRS" THEN LtrsCode(c)
    ELSE IF mode = "FIGS" THEN (IF c = "(" THEN baudotFIGS ELSE FigsCode(c))
    ELSE <<>>

getBaudotCode_FigsSpace(c, mode) ==
    IF mode = "LTRS" THEN LtrsCode(c)
    ELSE IF mode = "FIGS" THEN (IF c = " " THEN <<1,0,1,0,0>> ELSE FigsCode(c))
    ELSE <<>>

getBaudotCode(c, mode) ==
    IF mode = "LTRS" THEN LtrsCode(c)
    ELSE IF mode = "FIGS" THEN FigsCode(c)
    ELSE <<>>

-----------------------------------------------------------------------------
(* Bitstream generator *)

start_bit == <<0>>

\* A single stop bit.
stop_bit_Single == <<1>>

stop_bit == <<1,1>>

\* start_bit + code + stop_bit
Framed(code) == start_bit \o code \o stop_bit

\* A subscript that reads a space past the end of the String.
CharAt_Blank(text, i) == IF i < Len(text) THEN text[i + 1] ELSE " "

\* text[i] of an Arduino String, i counted from 0
CharAt(text, i) == IF i < Len(text) THEN text[i + 1] ELSE NUL

\* An initial mode that ignores the message.
GenInitMode_AlwaysLetters(text) == "LTRS"

GenInitMode(text) ==
    IF getBaudotCode(CharAt(text, 0), "LTRS") # <<>> THEN "LTRS" ELSE "FIGS"

\* A preamble that sends LF before CR.
GenPreamble_Swapped(currentMode) ==
    Framed(getBaudotCode("\n", "LTRS"))
    \o Framed(getBaudotCode("\r", "LTRS"))
    \o (IF currentMode = "LTRS" THEN Framed(baudotLTRS) ELSE Framed(baudotFIGS))

GenPreamble(currentMode) ==
    Framed(getBaudotCode("\r", "LTRS"))
    \o Framed(getBaudotCode("\n", "LTRS"))
    \o (IF currentMode = "LTRS" THEN Framed(baudotLTRS) ELSE Framed(baudotFIGS))

\* A loop body that emits nothing for a character of the Figures table only.
GenLoopBody_SkipsFigures(st, currentChar) ==
    IF getBaudotCode(currentChar, "LTRS") # <<>>
    THEN [bits |-> st.bits
                   \o (IF st.currentMode # "LTRS" THEN Framed(baudotLTRS) ELSE <<>>)
                   \o Framed(getBaudotCode(currentChar, "LTRS")),
          currentMode |-> "LTRS"]
    ELSE st

\* A loop body that changes to figures mode without sending the FIGS symbol.
GenLoopBody_SilentFigs(st, currentChar) ==
    IF getBaudotCode(currentChar, "LTRS") # <<>>
    THEN [bits |-> st.bits
                   \o (IF st.currentMode # "LTRS" THEN Framed(baudotLTRS) ELSE <<>>)
                   \o Framed(getBaudotCode(currentChar, "LTRS")),
          currentMode |-> "LTRS"]
    ELSE IF getBaudotCode(currentChar, "FIGS") # <<>>
    THEN [bits |-> st.bits \o Framed(getBaudotCode(currentChar, "FIGS")),
          currentMode |-> "FIGS"]
    ELSE st

\* One iteration of the for loop; st = [bits, currentMode].
GenLoopBody(st, currentChar) ==
    IF getBaudotCode(currentChar, "LTRS") # <<>>
    THEN [bits |-> st.bits
                   \o (IF st.currentMode # "LTRS" THEN Framed(baudotLTRS) ELSE <<>>)
                   \o Framed(getBaudotCode(currentChar, "LTRS")),
          currentMode |-> "LTRS"]
    ELSE IF getBaudotCode(currentChar, "FIGS") # <<>>
    THEN [bits |-> st.bits
                   \o (IF st.currentMode # "FIGS" THEN Framed(baudotFIGS) ELSE <<>>)
                   \o Framed(getBaudotCode(currentChar, "FIGS")),
          currentMode |-> "FIGS"]
    ELSE st

RECURSIVE GenLoop(_, _, _)
GenLoop(st, text, i) ==
    IF i < Len(text) THEN GenLoop(GenLoopBody(st, text[i + 1]), text, i + 1) ELSE st

generateBaudotString(text) ==
    GenLoop([bits |-> GenPreamble(GenInitMode(text)), currentMode |-> GenInitMode(text)],
            text, 0).bits

-----------------------------------------------------------------------------
(* Bounds of the model *)

MaxTextLen == 3      \* longest message drawn for generateBaudotString
MaxData == 2         \* longest audio data prefix stored in the memory device
MaxExtra == 1        \* sentinel bytes stored beyond FF_THRESHOLD
MaxTicks == 3        \* Timer1 interrupts served in one behaviour

-----------------------------------------------------------------------------
(* Registers, constants and helpers of the firmware *)

OCIE1A == 1          \* bit number of the Timer1 compare A interrupt enable
OCIE2A == 1          \* bit number of the Timer2 compare A interrupt enable
FF_THRESHOLD == 250

RECURSIVE Pow2(_)
Pow2(n) == IF n = 0 THEN 1 ELSE 2 * Pow2(n - 1)

HasBit(reg, b) == (reg \div Pow2(b)) % 2 = 1
\* reg |= (1 << b)
BitSet(reg, b) == IF HasBit(reg, b) THEN reg ELSE reg + Pow2(b)
\* reg &= ~(1 << b)
BitClear(reg, b) == IF HasBit(reg, b) THEN reg - Pow2(b) ELSE reg

Min(a, b) == IF a < b THEN a ELSE b

\* toupper applied to every character of the message
LowerCase == <<"a","b","c","d","e","f","g","h","i","j","k","l","m",
               "n","o","p","q","r","s","t","u","v","w","x","y","z">>
UpperCase == <<"A","B","C","D","E","F","G","H","I","J","K","L","M",
               "N","O","P","Q","R","S","T","U","V","W","X","Y","Z">>
\* A command layer that hands the message on as typed.
toupper_Identity(c) == c

toupper(c) ==
    IF \E k \in 1..26 : LowerCase[k] = c
    THEN UpperCase[CHOOSE k \in 1..26 : LowerCase[k] = c]
    ELSE c
ToUpperMessage(message) == [k \in 1..Len(message) |-> toupper(message[k])]

-----------------------------------------------------------------------------
(* Phase increment: (uint32_t)((f * 4294967296.0) / SAMPLE_RATE), evaluated  *)
(* in the target's 32-bit floating point (double is float on the AVR).       *)

SAMPLE_RATE == 80000

\* f * 2^n / SAMPLE_RATE as [q, r]: the exact quotient is q + r / SAMPLE_RATE.
RECURSIVE ScaledQuotient(_, _, _)
ScaledQuotient(q, r, n) ==
    IF n = 0 THEN [q |-> q, r |-> r]
    ELSE ScaledQuotient(2 * q + (IF 2 * r >= SAMPLE_RATE THEN 1 ELSE 0),
                        (2 * r) % SAMPLE_RATE, n - 1)

ExactIncrement(f) == ScaledQuotient(f \div SAMPLE_RATE, f % SAMPLE_RATE, 32)

\* Number of low bits of q that a 24-bit significand cannot hold.
RECURSIVE DroppedBits(_)
DroppedBits(q) == IF q < Pow2(24) THEN 0 ELSE 1 + DroppedBits(q \div 2)

\* Number of fraction bits a 24-bit significand holds next to the integer q.
RECURSIVE FractionBits(_)
FractionBits(q) == IF q >= Pow2(23) \/ q = 0 THEN 0 ELSE 1 + FractionBits(2 * q)

\* Round q + r/SAMPLE_RATE to the nearest float (ties to even), then truncate
\* to an integer as the cast does.
FloatToUint32(x) ==
    IF x.q >= Pow2(24)
    THEN LET step == Pow2(DroppedBits(x.q))
             low == x.q % step
             base == x.q - low
             half == step \div 2
             up == \/ low > half
                   \/ low = half /\ x.r > 0
                   \/ low = half /\ x.r = 0 /\ (base \div step) % 2 = 1
         IN  IF up THEN base + step ELSE base
    ELSE IF x.q >= Pow2(23)
    THEN IF 2 * x.r > SAMPLE_RATE THEN x.q + 1 ELSE x.q
    ELSE LET k == FractionBits(x.q)
         IN  IF x.q > 0 /\ k <= 12 /\ (SAMPLE_RATE - x.r) * Pow2(k + 1) <= SAMPLE_RATE
             THEN x.q + 1 ELSE x.q

PhaseIncrementFor(f) == FloatToUint32(ExactIncrement(f))

-----------------------------------------------------------------------------
(* Serial memory device: ee_data, then ee_run bytes 0xFF, then 0x00 bytes. *)

EE_Byte(data, run, pos) ==
    IF pos <= Len(data) THEN data[pos]
    ELSE IF pos <= Len(data) + run THEN 255
    ELSE 0

\* The device's address counter; positions in the trailing 0x00 bytes are
\* not told apart.
EE_Advance_Skip(data, run, pos) == Min(pos + 2, Len(data) + run + 1)

EE_Advance(data, run, pos) == Min(pos + 1, Len(data) + run + 1)

-----------------------------------------------------------------------------
(* Inputs *)

RECURSIVE SeqsUpTo(_, _)
SeqsUpTo(S, n) ==
    IF n = 0 THEN {<<>>}
    ELSE LET shorter == SeqsUpTo(S, n - 1)
         IN  shorter \cup {Append(t, c) : t \in {u \in shorter : Len(u) = n - 1}, c \in S}

\* Characters looked up: every case label, and some characters of neither table.
LookupChars == LtrsChars \cup FigsChars \cup {"%", "h", NUL}
Modes == {"LTRS", "FIGS"}

\* Characters of the messages given to generateBaudotString.
GenAlphabet == {"H", "E", "L", "O", " ", "\r", "3", "4", "'", "%", "h"}
HELLO == <<"H", "E", "L", "L", "O">>
GenTexts == SeqsUpTo(GenAlphabet, MaxTextLen) \cup {HELLO}

\* Messages of the AT+send requests, as typed.
SendMessages == {<<>>, <<"h", "i">>, <<"H", "i">>, <<"3">>, <<"%", "a">>}
\* Memory contents and AT+set values.
DataBytes == {0, 255}
RunLengths == {0, FF_THRESHOLD, FF_THRESHOLD + MaxExtra}
SetValues == {1000}

-----------------------------------------------------------------------------
(* Initial states *)

DefaultParams == [high |-> 2125, low |-> 2295, baud |-> 4545]  \* baud in 1/100

LkIdle ==
    /\ lk_c = NUL /\ lk_d = NUL /\ lk_mode = "LTRS"
    /\ lk_code_c = <<>> /\ lk_code_d = <<>> /\ lk_pc = "off"

GenIdle == gen_text = <<>> /\ gen_bits = <<>> /\ gen_pc = "off"

\* The state setup() leaves behind.
FwInit ==
    /\ pc = "loop"
    /\ sreg_I = 1
    /\ TIMSK1 = BitSet(0, OCIE1A)
    /\ TIMSK2 = 0
    /\ saved_TIMSK1 = 0
    /\ playback_active = FALSE
    /\ ee_sample = 0
    /\ consecutive_ff_count = 0
    /\ EE_CS = 1
    /\ ee_pos = 0
    /\ setParams = DefaultParams
    /\ phaseIncrement = 0
    /\ bits = <<>> /\ bit_i = 0 /\ incHigh = 0 /\ incLow = 0
    /\ timsk1_at_play = BitSet(0, OCIE1A)
    /\ send_msg = <<>>
    /\ phaseAccumulator = [hi |-> 0, lo |-> 0]
    /\ dac = <<>>
    /\ dds_ticks = 0

FwOff == FwInit /\ ee_data = <<>> /\ ee_run = 0

Init ==
    /\ FwInit
    /\ ee_data \in SeqsUpTo(DataBytes, MaxData)
    /\ ee_run \in RunLengths
    /\ LkIdle /\ GenIdle

InitLookup ==
    /\ lk_c \in LookupChars /\ lk_d \in LookupChars /\ lk_mode \in Modes
    /\ lk_code_c = <<>> /\ lk_code_d = <<>> /\ lk_pc = "call"
    /\ GenIdle /\ FwOff

InitEnc ==
    /\ gen_text \in GenTexts /\ gen_bits = <<>> /\ gen_pc = "call"
    /\ LkIdle /\ FwOff

-----------------------------------------------------------------------------
(* getBaudotCode and generateBaudotString applied *)

Lookup ==
    /\ lk_pc = "call"
    /\ lk_code_c' = getBaudotCode(lk_c, lk_mode)
    /\ lk_code_d' = getBaudotCode(lk_d, lk_mode)
    /\ lk_pc' = "ret"
    /\ UNCHANGED <<lk_c, lk_d, lk_mode, genVars, fwVars>>

Generate ==
    /\ gen_pc = "call"
    /\ gen_bits' = generateBaudotString(gen_text)
    /\ gen_pc' = "ret"
    /\ UNCHANGED <<gen_text, lkVars, fwVars>>

-----------------------------------------------------------------------------
(* exec: AT+send *)

sendVars == <<bits, bit_i, incHigh, incLow, send_msg>>
ddsVars == <<phaseAccumulator, dac, dds_ticks>>
playVars == <<sreg_I, TIMSK1, TIMSK2, saved_TIMSK1, playback_active, ee_sample,
              consecutive_ff_count, EE_CS, ee_pos, timsk1_at_play>>
memVars == <<ee_data, ee_run>>

\* Upper-case the message, build the bit string, compute the increments.
SendStart(message) ==
    /\ pc = "loop"
    /\ bits' = generateBaudotString(ToUpperMessage(message))
    /\ incHigh' = PhaseIncrementFor(setParams.high)
    /\ incLow' = PhaseIncrementFor(setParams.low)
    /\ bit_i' = 0
    /\ send_msg' = message
    /\ pc' = "send_loop"
    /\ UNCHANGED <<setParams, phaseIncrement, playVars, memVars, lkVars, genVars, ddsVars>>

\* A keying that computes the increment anew from the default parameters.
KeyedIncrement_Defaults(bit) ==
    IF bit = 1 THEN PhaseIncrementFor(DefaultParams.high)
    ELSE PhaseIncrementFor(DefaultParams.low)

KeyedIncrement_Swapped(bit) == IF bit = 1 THEN incLow ELSE incHigh

\* if (bits[i] == '1') phaseIncrement = incHigh; else phaseIncrement = incLow;
KeyedIncrement(bit) == IF bit = 1 THEN incHigh ELSE incLow

\* Loop body up to the delay: key the tone of bits[i].
SendBit ==
    /\ pc = "send_loop"
    /\ bit_i < Len(bits)
    /\ phaseIncrement' = KeyedIncrement(bits[bit_i + 1])
    /\ pc' = "send_delay"
    /\ UNCHANGED <<setParams, sendVars, playVars, memVars, lkVars, genVars, ddsVars>>

\* delay(1000 / setParams.baud) returns; i++.
SendDelay ==
    /\ pc = "send_delay"
    /\ bit_i' = bit_i + 1
    /\ pc' = "send_loop"
    /\ UNCHANGED <<setParams, phaseIncrement, bits, incHigh, incLow, send_msg, playVars, memVars,
                   lkVars, genVars, ddsVars>>

SilentIncrement_Left == phaseIncrement

\* phaseIncrement = 0; // Stop the wave generation
SilentIncrement == 0

\* Loop exit: phaseIncrement = 0, print OK; exec returns and its locals
\* (bits, i, incHigh, incLow) cease to exist.
SendEnd ==
    /\ pc = "send_loop"
    /\ bit_i >= Len(bits)
    /\ phaseIncrement' = SilentIncrement
    /\ bits' = <<>> /\ bit_i' = 0 /\ incHigh' = 0 /\ incLow' = 0 /\ send_msg' = <<>>
    /\ pc' = "loop"
    /\ UNCHANGED <<setParams, playVars, memVars, lkVars, genVars, ddsVars>>

-----------------------------------------------------------------------------
(* exec: AT+set, AT+reset *)

CmdSet(param, value) ==
    /\ pc = "loop"
    /\ setParams' = IF param \in {"high", "low", "baud"}
                    THEN [setParams EXCEPT ![param] = value]
                    ELSE setParams
    /\ UNCHANGED <<pc, phaseIncrement, sendVars, playVars, memVars, lkVars, genVars, ddsVars>>

CmdReset ==
    /\ pc = "loop"
    /\ setParams' = [high |-> 2125, low |-> 2295, baud |-> 4545]
    /\ UNCHANGED <<pc, phaseIncrement, sendVars, playVars, memVars, lkVars, genVars, ddsVars>>

-----------------------------------------------------------------------------
(* exec: AT+play, one action per statement *)

fwRest == <<setParams, phaseIncrement, sendVars, memVars, lkVars, genVars,
            phaseAccumulator, dds_ticks>>

\* start_eeprom_stream(): chip select low, read command with address 0.
\* A read command sent without selecting the device: the line stays as it is.
SelectedCS_High == EE_CS

\* EE_CS_LOW()
SelectedCS == 0

PlayStartStream ==
    /\ pc = "loop"
    /\ EE_CS' = SelectedCS
    /\ ee_pos' = 0
    /\ timsk1_at_play' = TIMSK1
    /\ pc' = "play_preload"
    /\ UNCHANGED <<sreg_I, TIMSK1, TIMSK2, saved_TIMSK1, playback_active, ee_sample,
                   consecutive_ff_count, dac, fwRest>>

\* ee_sample = ee_read_byte_bb()
PlayPreload ==
    /\ pc = "play_preload"
    /\ ee_sample' = EE_Byte(ee_data, ee_run, ee_pos + 1)
    /\ ee_pos' = EE_Advance(ee_data, ee_run, ee_pos)
    /\ pc' = "play_reset_count"
    /\ UNCHANGED <<sreg_I, TIMSK1, TIMSK2, saved_TIMSK1, playback_active,
                   consecutive_ff_count, EE_CS, timsk1_at_play, dac, fwRest>>

PlayResetCount ==
    /\ pc = "play_reset_count"
    /\ consecutive_ff_count' = 0
    /\ pc' = "play_save"
    /\ UNCHANGED <<sreg_I, TIMSK1, TIMSK2, saved_TIMSK1, playback_active, ee_sample,
                   EE_CS, ee_pos, timsk1_at_play, dac, fwRest>>

\* A save that reads the mask register only after it was cleared.
SavedTimsk_AfterDisable == BitClear(TIMSK1, OCIE1A)

\* saved_TIMSK1 = TIMSK1
SavedTimsk == TIMSK1

PlaySaveTimsk ==
    /\ pc = "play_save"
    /\ saved_TIMSK1' = SavedTimsk
    /\ pc' = "play_disable_t1"
    /\ UNCHANGED <<sreg_I, TIMSK1, TIMSK2, playback_active, ee_sample,
                   consecutive_ff_count, EE_CS, ee_pos, timsk1_at_play, dac, fwRest>>

\* A mask register that was left as it is instead of being cleared.
Timer1Masked_Kept == TIMSK1

\* TIMSK1 = 0
Timer1Masked == 0

PlayDisableTimer1 ==
    /\ pc = "play_disable_t1"
    /\ TIMSK1' = Timer1Masked
    /\ pc' = "play_cli"
    /\ UNCHANGED <<sreg_I, TIMSK2, saved_TIMSK1, playback_active, ee_sample,
                   consecutive_ff_count, EE_CS, ee_pos, timsk1_at_play, dac, fwRest>>

PlayCli ==
    /\ pc = "play_cli"
    /\ sreg_I' = 0
    /\ pc' = "play_enable_t2"
    /\ UNCHANGED <<TIMSK1, TIMSK2, saved_TIMSK1, playback_active, ee_sample,
                   consecutive_ff_count, EE_CS, ee_pos, timsk1_at_play, dac, fwRest>>

\* Timer2 set to 8 kHz; TIMSK2 |= (1 << OCIE2A)
PlayEnableTimer2 ==
    /\ pc = "play_enable_t2"
    /\ TIMSK2' = BitSet(TIMSK2, OCIE2A)
    /\ pc' = "play_sei"
    /\ UNCHANGED <<sreg_I, TIMSK1, saved_TIMSK1, playback_active, ee_sample,
                   consecutive_ff_count, EE_CS, ee_pos, timsk1_at_play, dac, fwRest>>

PlaySei ==
    /\ pc = "play_sei"
    /\ sreg_I' = 1
    /\ pc' = "play_set_active"
    /\ UNCHANGED <<TIMSK1, TIMSK2, saved_TIMSK1, playback_active, ee_sample,
                   consecutive_ff_count, EE_CS, ee_pos, timsk1_at_play, dac, fwRest>>

PlaySetActive ==
    /\ pc = "play_set_active"
    /\ playback_active' = TRUE
    /\ pc' = "play_wait"
    /\ UNCHANGED <<sreg_I, TIMSK1, TIMSK2, saved_TIMSK1, ee_sample,
                   consecutive_ff_count, EE_CS, ee_pos, timsk1_at_play, dac, fwRest>>

\* while (playback_active); falls through once the flag is clear.
PlayWaitExit ==
    /\ pc = "play_wait"
    /\ ~playback_active
    /\ pc' = "play_ok"
    /\ UNCHANGED <<playVars, dac, fwRest>>

\* Serial.println(F("OK")); exec returns to loop().
PlayOk ==
    /\ pc = "play_ok"
    /\ pc' = "loop"
    /\ UNCHANGED <<playVars, dac, fwRest>>

-----------------------------------------------------------------------------
(* ISR(TIMER2_COMPA_vect) *)

CONFIG_HIGH == 48    \* 0b00110000

\* A transaction that sends the sample in the low byte, not shifted.
DacWrite_Unshifted(s) == <<0, CONFIG_HIGH + (s \div 16), s, 1>>

\* The SPI transaction of one sample as the DAC sees it: chip select (PORTB
\* bit 2) low, the byte CONFIG_HIGH | (s >> 4), the low byte of (s << 4),
\* chip select high.
DacWrite(s) == <<0, CONFIG_HIGH + (s \div 16), ((s % 16) * 16) % 256, 1>>

Timer2Enabled == sreg_I = 1 /\ HasBit(TIMSK2, OCIE2A)

NextCount_AnyByte(count, sample) == count + 1

NextCount_NoReset(count, sample) == IF sample = 255 THEN count + 1 ELSE count

NextCount(count, sample) == IF sample = 255 THEN count + 1 ELSE 0

ThresholdReached_Late(count) == count >= FF_THRESHOLD + 1

ThresholdReached_Early(count) == count >= FF_THRESHOLD - 1

ThresholdReached(count) == count >= FF_THRESHOLD

\* A handler that leaves TIMSK1 as playback set it.
RestoredTIMSK1_Missing == TIMSK1

\* TIMSK1 = saved_TIMSK1
RestoredTIMSK1 == saved_TIMSK1

\* A chip select left as it is.
ReleasedCS_Held == EE_CS

\* EE_CS_HIGH(); // Release EEPROM
ReleasedCS == 1

\* A Timer2 mask left as it is.
Timer2Stopped_Kept == TIMSK2

\* TIMSK2 &= ~(1 << OCIE2A); // Stop Timer2
Timer2Stopped == BitClear(TIMSK2, OCIE2A)

Timer2ISR ==
    /\ Timer2Enabled
    /\ LET next == EE_Byte(ee_data, ee_run, ee_pos + 1)
           count == NextCount(consecutive_ff_count, next)
       IN  /\ dac' = DacWrite(ee_sample)
           /\ ee_sample' = next
           /\ ee_pos' = EE_Advance(ee_data, ee_run, ee_pos)
           /\ consecutive_ff_count' = count
           /\ IF ThresholdReached(count)
              THEN /\ EE_CS' = ReleasedCS
                   /\ TIMSK2' = Timer2Stopped
                   /\ playback_active' = FALSE
                   /\ TIMSK1' = RestoredTIMSK1
              ELSE UNCHANGED <<EE_CS, TIMSK2, playback_active, TIMSK1>>
    /\ UNCHANGED <<pc, sreg_I, saved_TIMSK1, timsk1_at_play, fwRest>>

-----------------------------------------------------------------------------
(* ISR(TIMER1_COMPA_vect): the DDS tick *)

\* sineTable[k + 1] is the C array's element k.
sineTable == <<
    128, 131, 134, 137, 140, 143, 146, 149, 152, 155, 158, 162, 165, 167, 170, 173,
    176, 179, 182, 185, 188, 190, 193, 196, 198, 201, 203, 206, 208, 211, 213, 215,
    218, 220, 222, 224, 226, 228, 230, 232, 234, 235, 237, 238, 240, 241, 243, 244,
    245, 246, 248, 249, 250, 250, 251, 252, 253, 253, 254, 254, 254, 255, 255, 255,
    255, 255, 255, 255, 254, 254, 254, 253, 253, 252, 251, 250, 250, 249, 248, 246,
    245, 244, 243, 241, 240, 238, 237, 235, 234, 232, 230, 228, 226, 224, 222, 220,
    218, 215, 213, 211, 208, 206, 203, 201, 198, 196, 193, 190, 188, 185, 182, 179,
    176, 173, 170, 167, 165, 162, 158, 155, 152, 149, 146, 143, 140, 137, 134, 131,
    128, 124, 121, 118, 115, 112, 109, 106, 103, 100, 97, 93, 90, 88, 85, 82,
    79, 76, 73, 70, 67, 65, 62, 59, 57, 54, 52, 49, 47, 44, 42, 40,
    37, 35, 33, 31, 29, 27, 25, 23, 21, 20, 18, 17, 15, 14, 12, 11,
    10, 9, 7, 6, 5, 5, 4, 3, 2, 2, 1, 1, 1, 0, 0, 0,
    0, 0, 0, 0, 1, 1, 1, 2, 2, 3, 4, 5, 5, 6, 7, 9,
    10, 11, 12, 14, 15, 17, 18, 20, 21, 23, 25, 27, 29, 31, 33, 35,
    37, 40, 42, 44, 47, 49, 52, 54, 57, 59, 62, 65, 67, 70, 73, 76,
    79, 82, 85, 88, 90, 93, 97, 100, 103, 106, 109, 112, 115, 118, 121, 124 >>

\* A Timer1 interrupt that is served whatever its mask bit says.
Timer1Enabled_Unmasked == sreg_I = 1

Timer1Enabled == sreg_I = 1 /\ HasBit(TIMSK1, OCIE1A)

AccAdd_NoCarry(acc, inc) ==
    [hi |-> (acc.hi + (inc \div 65536)) % 65536, lo |-> (acc.lo + (inc % 65536)) % 65536]

\* phaseAccumulator += phaseIncrement on uint32_t, by 16-bit halves.
AccAdd(acc, inc) ==
    LET lo == acc.lo + (inc % 65536)
        hi == acc.hi + (inc \div 65536) + (lo \div 65536)
    IN  [hi |-> hi % 65536, lo |-> lo % 65536]

\* phaseAccumulator >> 24
SineIndex(acc) == acc.hi \div 256

Timer1ISR ==
    /\ Timer1Enabled
    /\ dds_ticks < MaxTicks
    /\ phaseAccumulator' = AccAdd(phaseAccumulator, phaseIncrement)
    /\ dac' = DacWrite(sineTable[SineIndex(phaseAccumulator') + 1])
    /\ dds_ticks' = dds_ticks + 1
    /\ UNCHANGED <<pc, setParams, phaseIncrement, sendVars, playVars, memVars,
                   lkVars, genVars>>

-----------------------------------------------------------------------------
(* Specifications *)

Command ==
    \/ \E message \in SendMessages : SendStart(message)
    \/ \E param \in {"high", "low", "baud", "gain"}, value \in SetValues :
           CmdSet(param, value)
    \/ CmdReset
    \/ PlayStartStream

MainStep ==
    \/ SendBit \/ SendDelay \/ SendEnd
    \/ PlayPreload \/ PlayResetCount \/ PlaySaveTimsk \/ PlayDisableTimer1
    \/ PlayCli \/ PlayEnableTimer2 \/ PlaySei \/ PlaySetActive
    \/ PlayWaitExit \/ PlayOk

Next == Command \/ MainStep \/ Timer2ISR

Spec == Init /\ [][Next]_vars

\* The processor keeps executing the main sequence, and an enabled timer
\* interrupt keeps firing.
FairSpec == Spec /\ WF_vars(MainStep) /\ WF_vars(Timer2ISR)

SpecLookup == InitLookup /\ [][Lookup]_vars

SpecEnc == InitEnc /\ [][Generate]_vars

\* The firmware together with the DDS tick, on one recording and one message.
DDSMessages == {<<"e">>}

InitDDS ==
    /\ FwInit
    /\ ee_data = <<>> /\ ee_run = FF_THRESHOLD + MaxExtra
    /\ LkIdle /\ GenIdle

CommandDDS ==
    \/ \E message \in DDSMessages : SendStart(message)
    \/ \E param \in {"high", "low"}, value \in SetValues : CmdSet(param, value)
    \/ CmdReset
    \/ PlayStartStream

NextDDS == CommandDDS \/ MainStep \/ Timer2ISR \/ Timer1ISR

SpecDDS == InitDDS /\ [][NextDDS]_vars

\* One bit-hold interval of a send seen from the DDS tick: the main sequence
\* sits in delay() while Timer1 interrupts are served.  The accumulator is
\* wherever earlier ticks left it, the DAC holds the sample they wrote last.
TickFrequencies == {1, 2125, 2295, 20000, 32767}

TickAccumulators ==
    { [hi |-> 0, lo |-> 0], [hi |-> 255, lo |-> 65535], [hi |-> 32768, lo |-> 0],
      [hi |-> 61440, lo |-> 1], [hi |-> 65535, lo |-> 0], [hi |-> 65535, lo |-> 65535] }

InitTick ==
    /\ pc = "send_delay"
    /\ sreg_I = 1
    /\ TIMSK1 = BitSet(0, OCIE1A) /\ TIMSK2 = 0
    /\ saved_TIMSK1 = 0 /\ timsk1_at_play = BitSet(0, OCIE1A)
    /\ playback_active = FALSE
    /\ ee_sample = 0 /\ consecutive_ff_count = 0 /\ EE_CS = 1 /\ ee_pos = 0
    /\ ee_data = <<>> /\ ee_run = 0
    /\ setParams \in {[DefaultParams EXCEPT !.high = h, !.low = l] :
                          h \in TickFrequencies, l \in TickFrequencies}
    /\ send_msg = <<>>
    /\ bits = generateBaudotString(<<>>)
    /\ bit_i \in {0, 6}
    /\ incHigh = PhaseIncrementFor(setParams.high)
    /\ incLow = PhaseIncrementFor(setParams.low)
    /\ phaseIncrement = KeyedIncrement(bits[bit_i + 1])
    /\ phaseAccumulator \in TickAccumulators
    /\ dac = DacWrite(sineTable[SineIndex(phaseAccumulator) + 1])
    /\ dds_ticks = 0
    /\ LkIdle /\ GenIdle

SpecTick == InitTick /\ [][Timer1ISR]_vars

\* The two interrupt handlers as writers of the DAC, for every sample value:
\* a playback that has just entered its wait on a recording whose first byte
\* is any 8-bit value, or a bit hold of a send with the accumulator at any
\* of the 256 sine table entries.
InitDacPlayback ==
    /\ pc = "play_wait"
    /\ sreg_I = 1
    /\ TIMSK1 = 0 /\ TIMSK2 = BitSet(0, OCIE2A)
    /\ saved_TIMSK1 = BitSet(0, OCIE1A) /\ timsk1_at_play = BitSet(0, OCIE1A)
    /\ playback_active = TRUE
    /\ ee_data \in {<<s>> : s \in 0..255} /\ ee_run = FF_THRESHOLD + MaxExtra
    /\ ee_sample = ee_data[1] /\ ee_pos = 1
    /\ consecutive_ff_count = 0 /\ EE_CS = 0
    /\ setParams = DefaultParams
    /\ phaseIncrement = 0
    /\ bits = <<>> /\ bit_i = 0 /\ incHigh = 0 /\ incLow = 0 /\ send_msg = <<>>
    /\ phaseAccumulator = [hi |-> 0, lo |-> 0]
    /\ dac = DacWrite(sineTable[1])
    /\ dds_ticks = 0
    /\ LkIdle /\ GenIdle

InitDacHold ==
    /\ pc = "send_delay"
    /\ sreg_I = 1
    /\ TIMSK1 = BitSet(0, OCIE1A) /\ TIMSK2 = 0
    /\ saved_TIMSK1 = 0 /\ timsk1_at_play = BitSet(0, OCIE1A)
    /\ playback_active = FALSE
    /\ ee_sample = 0 /\ consecutive_ff_count = 0 /\ EE_CS = 1 /\ ee_pos = 0
    /\ ee_data = <<>> /\ ee_run = 0
    /\ setParams = DefaultParams
    /\ send_msg = <<>>
    /\ bits = generateBaudotString(<<>>)
    /\ bit_i = 0
    /\ incHigh = PhaseIncrementFor(setParams.high)
    /\ incLow = PhaseIncrementFor(setParams.low)
    /\ phaseIncrement = KeyedIncrement(bits[bit_i + 1])
    /\ phaseAccumulator \in {[hi |-> 256 * k, lo |-> 0] : k \in 0..255}
    /\ dac = DacWrite(sineTable[SineIndex(phaseAccumulator) + 1])
    /\ dds_ticks = 0
    /\ LkIdle /\ GenIdle

InitDac == InitDacPlayback \/ InitDacHold

NextDac == Timer1ISR \/ Timer2ISR

SpecDac == InitDac /\ [][NextDac]_vars

-----------------------------------------------------------------------------
(* Properties of the transport: AT+play and the Timer2 handler *)

Timer1On == HasBit(TIMSK1, OCIE1A)
Timer2On == HasBit(TIMSK2, OCIE2A)
PlayPcs == {"play_preload", "play_reset_count", "play_save", "play_disable_t1",
            "play_cli", "play_enable_t2", "play_sei", "play_set_active",
            "play_wait", "play_ok"}

\* C1: the Timer1 (DDS) compare interrupt and the Timer2 (playback) compare
\* interrupt are never both enabled.
C1_NeverBothEnabled == ~(Timer1On /\ Timer2On)

\* C1 witness: playback is running, its ISR has read sentinel bytes, Timer1 is off.
C1_Witness ==
    /\ pc = "play_wait" /\ playback_active
    /\ Timer2On /\ ~Timer1On
    /\ consecutive_ff_count > 1

\* C2 (as claimed): an AT+play on a stream whose sentinel run of FF_THRESHOLD
\* bytes is read in full by the playback ISR eventually returns to the
\* command loop, whatever the interleaving of ISR ticks and main steps.
C2_PlayEventuallyReturns ==
    (pc = "play_preload" /\ ee_run >= FF_THRESHOLD /\ Len(ee_data) >= 1) ~> (pc = "loop")

\* C3 (as claimed): for data of any length followed by at least FF_THRESHOLD
\* bytes 0xFF, playback has terminated once the FF_THRESHOLD-th trailing 0xFF
\* byte has been read from the device.
C3_TerminatedBy250thSentinel ==
    (/\ pc \in PlayPcs
     /\ ee_run >= FF_THRESHOLD
     /\ ee_pos >= Len(ee_data) + FF_THRESHOLD)
    => (~Timer2On /\ EE_CS = 1)

\* A playback has completed: the handler's terminating branch has run.
PlaybackCompleted ==
    /\ pc \in {"play_set_active", "play_wait", "play_ok"}
    /\ ~Timer2On

\* C4: when a playback completes, TIMSK1 equals the value it had when the
\* AT+play was issued.
C4_Timsk1Restored == PlaybackCompleted => TIMSK1 = timsk1_at_play

\* C4 witness: a playback has completed and returned, Timer1 is enabled again.
C4_Witness ==
    /\ pc = "play_ok" /\ ~playback_active
    /\ consecutive_ff_count = FF_THRESHOLD
    /\ Timer1On /\ TIMSK1 = timsk1_at_play

-----------------------------------------------------------------------------
(* Properties of the Baudot codec *)

\* C5 (as claimed): within one table, two characters with the same code are
\* the same character.
C5_LookupInjective ==
    (lk_pc = "ret" /\ lk_code_c # <<>> /\ lk_code_c = lk_code_d) => lk_c = lk_d

-----------------------------------------------------------------------------
(* Properties of the bitstream generator *)

NumSymbols(b) == Len(b) \div 8
Symbol(b, k) == SubSeq(b, 8 * (k - 1) + 1, 8 * k)
DataBits(sym) == SubSeq(sym, 2, 6)
IsShift(sym) == DataBits(sym) = <<1,1,1,1,1>> \/ DataBits(sym) = <<1,1,0,1,1>>
ShiftCount(b) == Cardinality({k \in 1..NumSymbols(b) : IsShift(Symbol(b, k))})

InLetters(c) == c \in LtrsChars
InFigures(c) == c \in FigsChars
Resolvable(c) == InLetters(c) \/ InFigures(c)

\* Index of the first character of text present in a table, 0 if there is none.
FirstResolvable(text) ==
    IF \E k \in 1..Len(text) : Resolvable(text[k])
    THEN CHOOSE k \in 1..Len(text) :
             Resolvable(text[k]) /\ \A j \in 1..(k - 1) : ~Resolvable(text[j])
    ELSE 0

\* The shift code that matches a character: LTRS for a Letters-table member,
\* FIGS for a character of the Figures table only.
ShiftFor(c) == IF InLetters(c) THEN <<1,1,1,1,1>> ELSE <<1,1,0,1,1>>

PreambleShift(b) == DataBits(Symbol(b, 3))

\* C6 (as claimed): the shift symbol of the preamble matches the first
\* resolvable character of the message, also when unencodable characters
\* precede it.
C6_ShiftMatchesFirstResolvable ==
    (gen_pc = "ret" /\ FirstResolvable(gen_text) > 0)
    => PreambleShift(gen_bits) = ShiftFor(gen_text[FirstResolvable(gen_text)])

\* C6 (amended): the shift symbol of the preamble matches the first resolvable
\* character when that character is the first character of the message; when
\* the first character is unencodable the preamble carries FIGS, whatever
\* follows.
C6_ShiftMatchesFirstCharacter ==
    (gen_pc = "ret" /\ Len(gen_text) > 0)
    => /\ FirstResolvable(gen_text) = 1
          => PreambleShift(gen_bits) = ShiftFor(gen_text[1])
       /\ FirstResolvable(gen_text) # 1
          => PreambleShift(gen_bits) = <<1,1,0,1,1>>

\* C6 witness: an unencodable character precedes a letter and the preamble
\* carries FIGS.
C6_Witness ==
    /\ gen_pc = "ret"
    /\ gen_text = <<"%", "H">>
    /\ PreambleShift(gen_bits) = <<1,1,0,1,1>>

\* C7 (as claimed): a message whose characters all belong to one table (CR, LF
\* and space belong to both) is encoded with exactly one shift symbol.
C7_SingleTableOneShift ==
    (/\ gen_pc = "ret"
     /\ \/ \A k \in 1..Len(gen_text) : InLetters(gen_text[k])
        \/ \A k \in 1..Len(gen_text) : InFigures(gen_text[k]))
    => ShiftCount(gen_bits) = 1

\* C8: the plan starts with framed CR, framed LF and one framed shift symbol,
\* LTRS if the first character of the message is in the Letters table and
\* FIGS otherwise (also for the empty message); no other symbol of these
\* three is a shift symbol.
C8_Preamble ==
    gen_pc = "ret"
    => /\ Len(gen_bits) >= 24
       /\ Symbol(gen_bits, 1) = <<0, 0,0,0,1,0, 1,1>>
       /\ Symbol(gen_bits, 2) = <<0, 0,1,0,0,0, 1,1>>
       /\ Symbol(gen_bits, 3) =
              IF Len(gen_text) > 0 /\ InLetters(gen_text[1])
              THEN <<0, 1,1,1,1,1, 1,1>>
              ELSE <<0, 1,1,0,1,1, 1,1>>
       /\ Len(gen_bits) > 24 => FirstResolvable(gen_text) > 0

\* C8 witness: the empty message gives exactly CR, LF, FIGS.
C8_Witness ==
    /\ gen_pc = "ret"
    /\ gen_text = <<>>
    /\ gen_bits = <<0,0,0,0,1,0,1,1, 0,0,1,0,0,0,1,1, 0,1,1,0,1,1,1,1>>

\* The 5-bit codes a symbol may carry.
AllCodes ==
    {LtrsCode(c) : c \in LtrsChars} \cup {FigsCode(c) : c \in FigsChars}
    \cup {<<1,1,1,1,1>>, <<1,1,0,1,1>>}

\* C9: the plan length is a multiple of 8 and every group of 8 bits is a start
\* bit 0, five data bits of a table code or shift code, and stop bits 1 1.
C9_Framing ==
    gen_pc = "ret"
    => /\ Len(gen_bits) % 8 = 0
       /\ \A k \in 1..NumSymbols(gen_bits) :
              LET sym == Symbol(gen_bits, k)
              IN  /\ sym[1] = 0
                  /\ DataBits(sym) \in AllCodes
                  /\ sym[7] = 1 /\ sym[8] = 1

\* C9 witness: HELLO is encoded as 3 + 5 framed symbols.
C9_Witness ==
    /\ gen_pc = "ret"
    /\ gen_text = HELLO
    /\ Len(gen_bits) = 64

\* Decoding a 5-bit code through the Letters table: the characters it stands for.
DecodeLetters(code) == {c \in LtrsChars : LtrsCode(c) = code}

\* C10: for a message of Letters-table characters, the symbols after the
\* three preamble symbols decode through the Letters table to exactly the
\* message.
C10_LettersRoundTrip ==
    (gen_pc = "ret" /\ \A k \in 1..Len(gen_text) : InLetters(gen_text[k]))
    => /\ NumSymbols(gen_bits) = 3 + Len(gen_text)
       /\ \A k \in 1..Len(gen_text) :
              DecodeLetters(DataBits(Symbol(gen_bits, 3 + k))) = {gen_text[k]}

\* C10 witness: HELLO has been encoded and its five symbols decode to H E L L O.
C10_Witness ==
    /\ gen_pc = "ret"
    /\ gen_text = HELLO
    /\ NumSymbols(gen_bits) = 8
    /\ \A k \in 1..5 : HELLO[k] \in DecodeLetters(DataBits(Symbol(gen_bits, 3 + k)))

-----------------------------------------------------------------------------
(* Character symbols of a plan *)

\* The symbols of a plan from symbol number first on, in order.
SymbolsFrom(b, first) == [k \in 1..(NumSymbols(b) - first + 1) |-> Symbol(b, first + k - 1)]

NotShift(sym) == ~IsShift(sym)

\* The character symbols: the symbols after the preamble that are no shift symbols.
CharSymbols(b) == SelectSeq(SymbolsFrom(b, 4), NotShift)

\* The characters of a message that are present in at least one table.
ResolvableChars(text) == SelectSeq(text, Resolvable)

\* The code of a character: its Letters code if it has one, else its Figures code.
CodeOf(c) == IF InLetters(c) THEN LtrsCode(c) ELSE FigsCode(c)

\* C11: the plan holds exactly one character symbol for each message character
\* present in a table, in message order, and none for a character of neither
\* table; the generator returns a plan for every message.
C11_OneSymbolPerResolvable ==
    gen_pc = "ret"
    => /\ Len(CharSymbols(gen_bits)) = Len(ResolvableChars(gen_text))
       /\ \A k \in 1..Len(ResolvableChars(gen_text)) :
              DataBits(CharSymbols(gen_bits)[k]) = CodeOf(ResolvableChars(gen_text)[k])

\* C11 witness: an unencodable character between a letter and a figure leaves
\* two character symbols.
C11_Witness ==
    /\ gen_pc = "ret"
    /\ gen_text = <<"H", "%", "3">>
    /\ Len(CharSymbols(gen_bits)) = 2
    /\ NumSymbols(gen_bits) = 6

-----------------------------------------------------------------------------
(* Properties of exec (AT+send) *)

SendPcs == {"send_loop", "send_delay"}

\* A letter as typed, lower-case or upper-case, and its upper-case form.
IsTypedLetter(c) == \E j \in 1..26 : LowerCase[j] = c \/ UpperCase[j] = c
UpperOf(c) == UpperCase[CHOOSE j \in 1..26 : LowerCase[j] = c \/ UpperCase[j] = c]

\* C12: a send request of n lower-case or upper-case letters is keyed from a
\* plan of the preamble and exactly n character symbols, the Letters codes of
\* the upper-cased letters in order, with LTRS in the preamble and no shift
\* symbol after it.
C12_LettersRequestPlan ==
    (pc \in SendPcs /\ \A k \in 1..Len(send_msg) : IsTypedLetter(send_msg[k]))
    => /\ NumSymbols(bits) = 3 + Len(send_msg)
       /\ Len(bits) = 8 * NumSymbols(bits)
       /\ Len(send_msg) > 0 => ShiftCount(bits) = 1 /\ PreambleShift(bits) = <<1,1,1,1,1>>
       /\ \A k \in 1..Len(send_msg) :
              DataBits(Symbol(bits, 3 + k)) = LtrsCode(UpperOf(send_msg[k]))

\* C12 witness: the request hi is being keyed from a plan of five symbols whose
\* last two are H and I.
C12_Witness ==
    /\ pc = "send_delay"
    /\ send_msg = <<"h", "i">>
    /\ NumSymbols(bits) = 5
    /\ DataBits(Symbol(bits, 4)) = <<0,0,1,0,1>>
    /\ DataBits(Symbol(bits, 5)) = <<0,1,1,0,0>>

\* round(f * 2^32 / SAMPLE_RATE) on the exact rational, halves rounded up.
RoundedIncrement(f) ==
    LET x == ExactIncrement(f)
    IN  x.q + (IF 2 * x.r >= SAMPLE_RATE THEN 1 ELSE 0)

\* C13 (as claimed): the two increments a send computes are
\* round(f * 2^32 / 80000) for f the high and the low tone frequency.
C13_IncrementIsRounded ==
    pc \in SendPcs
    => /\ incHigh = RoundedIncrement(setParams.high)
       /\ incLow = RoundedIncrement(setParams.low)

\* The codes the three mode-independent characters are said to have.
SharedChars == {"\r", "\n", " "}

SharedCode(c) ==
    CASE c = "\r" -> <<0,0,0,1,0>>
      [] c = "\n" -> <<0,1,0,0,0>>
      [] c = " "  -> <<0,0,1,0,0>>

\* C14: carriage return, line feed and space are looked up to the same code
\* whichever table is asked: 00010, 01000 and 00100.
C14_SharedCharsSameCode ==
    (lk_pc = "ret" /\ lk_c \in SharedChars) => lk_code_c = SharedCode(lk_c)

C14_Witness ==
    /\ lk_pc = "ret" /\ lk_c = " " /\ lk_mode = "FIGS"
    /\ lk_code_c = <<0,0,1,0,0>>

-----------------------------------------------------------------------------
(* Blocking playback *)

\* C15: AT+play is at its OK (about to return to the command loop) only
\* after the playback ISR has counted FF_THRESHOLD consecutive 0xFF bytes,
\* cleared playback_active and stopped itself.
C15_ReturnOnlyAfterThreshold ==
    pc = "play_ok"
    => /\ consecutive_ff_count >= FF_THRESHOLD
       /\ ~playback_active
       /\ ~Timer2On

\* C15 witness: the handler returns with the last byte read a sentinel and
\* the memory device deselected by the ISR's terminating branch.
C15_Witness ==
    /\ pc = "play_ok" /\ ee_sample = 255 /\ EE_CS = 1
    /\ consecutive_ff_count = FF_THRESHOLD /\ ~Timer2On

-----------------------------------------------------------------------------
(* Shift handling of the generator *)

OtherMode(mode) == IF mode = "LTRS" THEN "FIGS" ELSE "LTRS"
TableCode(c, mode) == IF mode = "LTRS" THEN LtrsCode(c) ELSE FigsCode(c)
ShiftSymbolTo(mode) == Framed(IF mode = "LTRS" THEN baudotLTRS ELSE baudotFIGS)

\* The per-character step as C16 describes it: the table of the current
\* shift state is asked first, the other table only if that fails.
CurrentTableFirst(st, c) ==
    IF TableCode(c, st.currentMode) # <<>>
    THEN [bits |-> st.bits \o Framed(TableCode(c, st.currentMode)),
          currentMode |-> st.currentMode]
    ELSE IF TableCode(c, OtherMode(st.currentMode)) # <<>>
    THEN [bits |-> st.bits \o ShiftSymbolTo(OtherMode(st.currentMode))
                   \o Framed(TableCode(c, OtherMode(st.currentMode))),
          currentMode |-> OtherMode(st.currentMode)]
    ELSE st

RECURSIVE CurrentTableFirstLoop(_, _, _)
CurrentTableFirstLoop(st, text, i) ==
    IF i < Len(text)
    THEN CurrentTableFirstLoop(CurrentTableFirst(st, text[i + 1]), text, i + 1)
    ELSE st

\* C16 (as claimed): the plan is the one obtained by resolving every
\* character against the current table first, shifting only for a character
\* absent from it; CR, LF and space never cause a shift symbol.
C16_CurrentTableFirst ==
    gen_pc = "ret"
    => gen_bits = CurrentTableFirstLoop(
                      [bits |-> GenPreamble(GenInitMode(gen_text)),
                       currentMode |-> GenInitMode(gen_text)],
                      gen_text, 0).bits

\* The table a receiver is in after the first n symbols of a plan: it
\* follows the shift symbols and starts in Letters.
RECURSIVE ReceiverMode(_, _)
ReceiverMode(b, n) ==
    IF n = 0 THEN "LTRS"
    ELSE IF DataBits(Symbol(b, n)) = baudotLTRS THEN "LTRS"
    ELSE IF DataBits(Symbol(b, n)) = baudotFIGS THEN "FIGS"
    ELSE ReceiverMode(b, n - 1)

\* Positions of the character symbols of a plan, in order.
CharPositions(b) ==
    SelectSeq([k \in 1..(NumSymbols(b) - 3) |-> k + 3],
              LAMBDA n : ~IsShift(Symbol(b, n)))

\* C17: the k-th character symbol after the preamble carries the code the
\* k-th encodable character of the message has in the table named by the
\* most recent shift symbol before it.
C17_ShiftStateConsistent ==
    gen_pc = "ret"
    => /\ Len(CharPositions(gen_bits)) = Len(ResolvableChars(gen_text))
       /\ \A k \in 1..Len(CharPositions(gen_bits)) :
              LET n == CharPositions(gen_bits)[k]
                  c == ResolvableChars(gen_text)[k]
              IN  /\ TableCode(c, ReceiverMode(gen_bits, n)) # <<>>
                  /\ DataBits(Symbol(gen_bits, n))
                         = TableCode(c, ReceiverMode(gen_bits, n))

\* C17 witness: a plan that changes table twice after the preamble.
C17_Witness ==
    /\ gen_pc = "ret" /\ gen_text = <<"3", "E", "4">>
    /\ NumSymbols(gen_bits) = 8
    /\ ReceiverMode(gen_bits, 4) = "FIGS"
    /\ ReceiverMode(gen_bits, 6) = "LTRS"
    /\ ReceiverMode(gen_bits, 8) = "FIGS"

-----------------------------------------------------------------------------
(* Keying of the tone during a send *)

\* C18: a send starts at the first plan bit; each keying step sets
\* phaseIncrement to the high increment for a 1 and to the low increment for
\* a 0 of the bit at the current position; each hold advances the position
\* by exactly one; the plan is never altered; and the send is left only from
\* the loop test with every bit keyed and held.
C18_KeyedOncePerBit ==
    [][ /\ (pc \notin SendPcs /\ pc' \in SendPcs)
           => (pc' = "send_loop" /\ bit_i' = 0)
        /\ (pc = "send_loop" /\ pc' = "send_delay")
           => /\ bit_i < Len(bits) /\ bit_i' = bit_i /\ bits' = bits
              /\ phaseIncrement' =
                     (IF bits[bit_i + 1] = 1
                      THEN PhaseIncrementFor(setParams.high)
                      ELSE PhaseIncrementFor(setParams.low))
        /\ (pc = "send_delay" /\ pc' # pc)
           => /\ pc' = "send_loop" /\ bit_i' = bit_i + 1 /\ bits' = bits
              /\ phaseIncrement' = phaseIncrement
        /\ (pc = "send_delay" /\ pc' = pc)
           => (bit_i' = bit_i /\ bits' = bits /\ phaseIncrement' = phaseIncrement)
        /\ (pc \in SendPcs /\ pc' \notin SendPcs)
           => (pc = "send_loop" /\ bit_i = Len(bits) /\ pc' = "loop")
      ]_vars

\* C18 witness: the last bit of the plan of "hi", a stop bit, is being held
\* on the high tone after 39 earlier holds.
C18_Witness ==
    /\ pc = "send_delay" /\ send_msg = <<"h", "i">>
    /\ Len(bits) = 40 /\ bit_i = 39
    /\ phaseIncrement = incHigh /\ phaseIncrement # incLow

-----------------------------------------------------------------------------
(* The DDS tick *)

\* C19: outside a send (before the first, between two, during a playback,
\* after one has returned) phaseIncrement is 0; and a DDS tick taken while
\* phaseIncrement is 0 leaves phaseAccumulator as it was and writes the sine
\* sample of that unchanged accumulator to the DAC.
C19_SilentOutsideSend ==
    /\ [](pc \notin SendPcs => phaseIncrement = 0)
    /\ [][ (phaseIncrement = 0 /\ dds_ticks' = dds_ticks + 1)
           => /\ phaseAccumulator' = phaseAccumulator
              /\ dac' = DacWrite(sineTable[SineIndex(phaseAccumulator) + 1])
         ]_vars

\* C19 witness: a send has moved the accumulator and returned, and a tick
\* has since written the sample of the resting accumulator.
C19_Witness ==
    /\ pc = "loop" /\ phaseIncrement = 0
    /\ dds_ticks = MaxTicks
    /\ phaseAccumulator # [hi |-> 0, lo |-> 0]
    /\ dac = DacWrite(sineTable[SineIndex(phaseAccumulator) + 1])
    /\ dac # DacWrite(sineTable[1])

\* C20: a DDS tick replaces phaseAccumulator by (phaseAccumulator +
\* phaseIncrement) mod 2^32, here computed on the top 8 and the low 24 bits,
\* and sends the sine table entry at the top 8 bits of the new accumulator;
\* that index lies in 0..255 and the accumulator stays a 32-bit value.
C20_TickAdvancesAndIndexes ==
    [][ dds_ticks' = dds_ticks + 1
        => LET top == phaseAccumulator.hi \div 256
               low == (phaseAccumulator.hi % 256) * 65536 + phaseAccumulator.lo
               sum == low + (phaseIncrement % 16777216)
               newtop == (top + (phaseIncrement \div 16777216)
                              + (sum \div 16777216)) % 256
               newlow == sum % 16777216
           IN  /\ phaseAccumulator' = [hi |-> newtop * 256 + (newlow \div 65536),
                                       lo |-> newlow % 65536]
               /\ phaseAccumulator'.hi \in 0..65535
               /\ phaseAccumulator'.lo \in 0..65535
               /\ SineIndex(phaseAccumulator') = newtop
               /\ SineIndex(phaseAccumulator') \in 0..255
               /\ dac' = DacWrite(sineTable[newtop + 1])
      ]_vars

\* C20 witness: one tick at 2125 Hz from the accumulator 2^32 - 1 has wrapped
\* around to 114085071 and sent table entry 6.
C20_Witness ==
    /\ dds_ticks = 1 /\ phaseIncrement = 114085072
    /\ phaseAccumulator = [hi |-> 1740, lo |-> 52431]
    /\ dac = DacWrite(sineTable[7])

-----------------------------------------------------------------------------
(* Order of the playback start *)

\* C21: AT+play saves TIMSK1, then disables the Timer1 (DDS) interrupt, then
\* enables the Timer2 (playback) interrupt, then blocks: the step that
\* disables Timer1 finds the saved value equal to the register it clears, the
\* step that enables Timer2 finds Timer1 disabled and the value of the
\* command's start saved, and the wait is entered only with Timer2 enabled
\* or the playback already run to its end.
C21_PlaybackStartOrder ==
    [][ /\ (Timer1On /\ ~Timer1On')
           => (saved_TIMSK1 = TIMSK1 /\ saved_TIMSK1' = TIMSK1 /\ ~Timer2On)
        /\ (~Timer2On /\ Timer2On')
           => /\ ~Timer1On /\ ~Timer1On'
              /\ saved_TIMSK1 = timsk1_at_play
              /\ HasBit(saved_TIMSK1, OCIE1A)
        /\ (pc # "play_wait" /\ pc' = "play_wait")
           => (Timer2On' \/ consecutive_ff_count' >= FF_THRESHOLD)
      ]_vars

\* C21 witness: Timer2 has just been enabled inside the cli/sei bracket, with
\* Timer1 off and its enabled state saved.
C21_Witness ==
    /\ pc = "play_sei" /\ sreg_I = 0
    /\ Timer2On /\ ~Timer1On
    /\ HasBit(saved_TIMSK1, OCIE1A)

-----------------------------------------------------------------------------
(* The playback stream *)

\* A step of the playback ISR that can be seen: the main sequence stays where
\* it is and the DAC or the playback cursor changes.
PlaybackTick ==
    /\ pc' = pc
    /\ <<dac, ee_sample, ee_pos, consecutive_ff_count, TIMSK2>>'
           # <<dac, ee_sample, ee_pos, consecutive_ff_count, TIMSK2>>

\* C22: the preload buffers the byte at address 0; the playback source is
\* enabled with that byte buffered; every playback tick writes to the DAC the
\* buffered byte, which is the stream byte at the cursor, and then buffers
\* the byte after it, moving the cursor by one: the bytes written are the
\* stream from address 0 on, in order, none skipped or written twice, and a
\* byte that was read but not written when Timer2 stopped is replaced by the
\* next preload before any tick.
C22_WritesArePrefixOfStream ==
    [][ /\ (pc = "play_preload" /\ pc' # pc)
           => (ee_pos = 0 /\ ee_pos' = 1 /\ ee_sample' = EE_Byte(ee_data, ee_run, 1))
        /\ (~Timer2On /\ Timer2On')
           => (ee_pos = 1 /\ ee_sample = EE_Byte(ee_data, ee_run, 1))
        /\ PlaybackTick
           => /\ Timer2On /\ sreg_I = 1
              /\ ee_sample = EE_Byte(ee_data, ee_run, ee_pos)
              /\ dac' = DacWrite(EE_Byte(ee_data, ee_run, ee_pos))
              /\ ee_pos' = Min(ee_pos + 1, Len(ee_data) + ee_run + 1)
              /\ ee_sample' = EE_Byte(ee_data, ee_run, ee_pos + 1)
      ]_vars

\* C22 witness: of the recording 255, 0, 255... the second byte has just been
\* written and the third is buffered.
C22_Witness ==
    /\ ee_data = <<255, 0>> /\ ee_run >= FF_THRESHOLD
    /\ Timer2On /\ ee_pos = 3
    /\ dac = DacWrite(0) /\ ee_sample = 255 /\ consecutive_ff_count = 1

\* n is the length of the run of 0xFF bytes that ends at stream position
\* pos and does not reach back before position first.
IsRunEndingAt(n, data, run, pos, first) ==
    /\ n \in 0..(pos - first + 1)
    /\ \A j \in (pos - n + 1)..pos : EE_Byte(data, run, j) = 255
    /\ (n = pos - first + 1 \/ EE_Byte(data, run, pos - n) # 255)

\* The positions from the reset of the counter to the handler's return.
CountingPcs == PlayPcs \ {"play_preload", "play_reset_count"}

\* C23: from its reset at the playback start on, consecutive_ff_count is the
\* length of the run of 0xFF bytes ending at the byte the playback ISR read
\* last, counted over the bytes the ISR has read in this playback (the
\* stream from its second byte on; 0 before the first tick and after a byte
\* other than 0xFF); and it is always within 0..FF_THRESHOLD.
C23_CountIsCurrentRun ==
    /\ consecutive_ff_count \in 0..FF_THRESHOLD
    /\ pc \in CountingPcs
       => IsRunEndingAt(consecutive_ff_count, ee_data, ee_run, ee_pos, 2)

\* C23 witness: in the recording 255, 0 the zero has reset the count and the
\* third sentinel after it has just been read.
C23_Witness ==
    /\ pc = "play_wait" /\ Timer2On
    /\ ee_data = <<255, 0>> /\ ee_pos = 5
    /\ consecutive_ff_count = 3

-----------------------------------------------------------------------------
(* End of a playback *)

\* C24: the tick that brings the sentinel count to FF_THRESHOLD leaves the
\* memory chip select high, OCIE2A clear and playback_active false, and so
\* does every step that stops Timer2; the handler leaves its wait in such a
\* state; and after it no tick runs (a tick needs Timer2 enabled with the
\* count below the threshold) until an AT+play enables Timer2 again.
C24_TerminatingTickReleases ==
    /\ [](Timer2On => consecutive_ff_count < FF_THRESHOLD)
    /\ [](pc = "play_ok" => (EE_CS = 1 /\ ~Timer2On /\ ~playback_active))
    /\ [][ /\ ((PlaybackTick /\ consecutive_ff_count' >= FF_THRESHOLD)
                   \/ (Timer2On /\ ~Timer2On'))
              => /\ EE_CS' = 1 /\ ~Timer2On' /\ ~playback_active'
                 /\ consecutive_ff_count' = FF_THRESHOLD
           /\ PlaybackTick => Timer2On
           /\ (~Timer2On /\ Timer2On') => pc = "play_enable_t2"
           /\ (pc = "play_wait" /\ pc' # pc)
              => (EE_CS = 1 /\ ~Timer2On /\ ~playback_active)
         ]_vars

\* C24 witness: the terminating tick has run and the handler is about to
\* observe it in its wait.
C24_Witness ==
    /\ pc = "play_wait" /\ ~playback_active /\ ~Timer2On /\ EE_CS = 1
    /\ consecutive_ff_count = FF_THRESHOLD
    /\ ee_pos = Len(ee_data) + FF_THRESHOLD + 1

-----------------------------------------------------------------------------
(* Sends and playbacks are serial *)

\* C25: a send begins, and runs, only with the playback idle and the DDS
\* path live: playback_active false, OCIE2A clear, OCIE1A set, interrupts
\* enabled and the memory device deselected; also after completed playbacks.
C25_SendBeginsWithPlaybackIdle ==
    /\ [](pc \in SendPcs
          => /\ ~playback_active /\ ~Timer2On /\ Timer1On
             /\ sreg_I = 1 /\ EE_CS = 1)
    /\ [][ (pc \notin SendPcs /\ pc' \in SendPcs)
           => (pc = "loop" /\ ~playback_active /\ ~Timer2On /\ Timer1On)
         ]_vars

\* C25 witness: a send has begun after a playback that ran to its end.
C25_Witness ==
    /\ pc = "send_loop" /\ bit_i = 0 /\ Len(bits) > 0
    /\ consecutive_ff_count = FF_THRESHOLD /\ saved_TIMSK1 = TIMSK1
    /\ ~playback_active /\ ~Timer2On /\ Timer1On

-----------------------------------------------------------------------------
(* Playback without end *)

\* The stream holds no run of FF_THRESHOLD bytes 0xFF anywhere.
NoSentinelRun == Len(ee_data) + ee_run < FF_THRESHOLD

\* C26: on a stream without a run of FF_THRESHOLD sentinel bytes a playback
\* never completes: once Timer2 is enabled it stays enabled with the count
\* below the threshold, the handler sits in its wait with playback_active
\* set and never reaches its OK, and the main sequence never gets back to
\* the command loop, so no later command is executed.
C26_NoSentinelNeverCompletes ==
    /\ [](NoSentinelRun
          => /\ pc # "play_ok"
             /\ pc \in {"play_sei", "play_set_active", "play_wait"}
                => (Timer2On /\ consecutive_ff_count < FF_THRESHOLD)
             /\ pc = "play_wait" => playback_active)
    /\ [][ (NoSentinelRun /\ pc \in PlayPcs)
           => (pc' \in PlayPcs /\ setParams' = setParams /\ bits' = bits)
         ]_vars

\* C26 witness: the recording 255, 255 followed by zeros only; the ticks go
\* on in the zeros and the handler is blocked.
C26_Witness ==
    /\ pc = "play_wait" /\ playback_active /\ Timer2On
    /\ ee_data = <<255, 255>> /\ ee_run = 0
    /\ ee_pos = 3 /\ ee_sample = 0 /\ dac = DacWrite(0)
    /\ consecutive_ff_count = 0

-----------------------------------------------------------------------------
(* The first sentinel run ends the playback *)

\* Among the bytes the playback ISR reads (the stream from its second byte
\* on), a run of FF_THRESHOLD bytes 0xFF ends at position pos.
RunEndsAt(pos) ==
    /\ pos >= FF_THRESHOLD + 1
    /\ \A j \in (pos - FF_THRESHOLD + 1)..pos : EE_Byte(ee_data, ee_run, j) = 255

\* C27: while Timer2 is enabled no run of FF_THRESHOLD sentinels ends at the
\* byte read last, so a tick never reads past the end of such a run; and a
\* completed playback has stopped with its cursor on the last byte of the
\* run and the byte before it as the last one written: whatever follows the
\* run, sentinels and audio alike, is neither read nor output.
C27_StopsAtFirstRun ==
    /\ (pc \in CountingPcs /\ Timer2On) => ~RunEndsAt(ee_pos)
    /\ PlaybackCompleted
       => /\ RunEndsAt(ee_pos)
          /\ ee_sample = 255
          /\ dac = DacWrite(EE_Byte(ee_data, ee_run, ee_pos - 1))

\* C27 witness: a run that begins inside the recording has ended the
\* playback; the next byte of the device, one more 0xFF, was not read.
C27_Witness ==
    /\ PlaybackCompleted /\ pc = "play_wait"
    /\ ee_data = <<0, 255>> /\ ee_run = FF_THRESHOLD
    /\ ee_pos = FF_THRESHOLD + 1
    /\ EE_Byte(ee_data, ee_run, ee_pos + 1) = 255

-----------------------------------------------------------------------------
(* Parameters of a send *)

\* A bit of the current send has been keyed: the first keying step is done
\* and the loop has not been left.
BitKeyed == pc = "send_delay" \/ (pc = "send_loop" /\ bit_i > 0)

\* C28: the step that begins a send computes incHigh and incLow from the
\* parameters of that moment; during the send no step changes the
\* parameters or the two increments, so the increments are those of the
\* current parameters all along; and from the first keying to the end of
\* the last hold phaseIncrement is one of the two.
C28_IncrementsSnapshotted ==
    /\ [](pc \in SendPcs
          => /\ incHigh = PhaseIncrementFor(setParams.high)
             /\ incLow = PhaseIncrementFor(setParams.low))
    /\ [](BitKeyed => phaseIncrement \in {incHigh, incLow})
    /\ [][ /\ (pc \notin SendPcs /\ pc' \in SendPcs)
              => /\ incHigh' = PhaseIncrementFor(setParams.high)
                 /\ incLow' = PhaseIncrementFor(setParams.low)
           /\ pc \in SendPcs => setParams' = setParams
           /\ (pc \in SendPcs /\ pc' \in SendPcs)
              => (incHigh' = incHigh /\ incLow' = incLow)
         ]_vars

\* C28 witness: a send begun after AT+set,high,1000 keys a 1 with the
\* increment of 1000 Hz.
C28_Witness ==
    /\ pc = "send_delay" /\ bits[bit_i + 1] = 1
    /\ setParams.high = 1000 /\ setParams.low = 2295
    /\ incHigh = PhaseIncrementFor(1000)
    /\ phaseIncrement = incHigh

-----------------------------------------------------------------------------
(* The DAC transaction *)

\* The sample a transaction carries: the 8 bits after the upper nibble of
\* its first byte.
SampleOf(tx) == (tx[2] % 16) * 16 + (tx[3] \div 16)

\* tx is a transaction for sample s as the claim describes it: chip select
\* low, exactly two bytes, chip select high; the first byte 0x30 OR (s >> 4),
\* the second (s << 4) mod 256.
IsDacTransaction(tx, s) ==
    /\ Len(tx) = 4 /\ tx[1] = 0 /\ tx[4] = 1
    /\ tx[2] \in 0..255 /\ tx[3] \in 0..255
    /\ tx[2] \div 16 = 3 /\ tx[2] % 16 = s \div 16
    /\ tx[3] = (s * 16) % 256
    /\ SampleOf(tx) = s

\* C29: a playback tick sends the transaction of the buffered byte, a DDS
\* tick the transaction of the sine table entry at the new accumulator's top
\* 8 bits; each is two bytes framed by chip select, with the upper nibble
\* 0011 and the sample in the following 8 bits.
C29_DacTransaction ==
    [][ /\ (PlaybackTick /\ dds_ticks' = dds_ticks)
           => (ee_sample \in 0..255 /\ IsDacTransaction(dac', ee_sample))
        /\ (dds_ticks' = dds_ticks + 1)
           => IsDacTransaction(dac', sineTable[SineIndex(phaseAccumulator') + 1])
      ]_vars

\* C29 witness: the playback ISR has sent the sample 0xA5 as 0x3A, 0x50.
C29_Witness ==
    /\ ee_data = <<165>> /\ ee_pos = 2
    /\ dac = <<0, 58, 80, 1>>

-----------------------------------------------------------------------------
(* Chip select of the memory device *)

\* A playback is in progress: AT+play has issued the read command and the
\* terminating tick has not run.
PlaybackInProgress == pc \in PlayPcs /\ ~PlaybackCompleted

\* C30: the memory chip select is low exactly while a playback is in
\* progress, in particular in every state with Timer2 enabled, and high
\* otherwise; it goes low only in the step that issues the read command and
\* high only in the terminating tick.
C30_ChipSelectHeld ==
    /\ [](Timer2On => EE_CS = 0)
    /\ [](PlaybackInProgress => EE_CS = 0)
    /\ [](~PlaybackInProgress => EE_CS = 1)
    /\ [][ /\ (EE_CS = 1 /\ EE_CS' = 0) => (pc = "loop" /\ pc' = "play_preload")
           /\ (EE_CS = 0 /\ EE_CS' = 1) => (Timer2On /\ ~Timer2On')
         ]_vars

\* C30 witness: the device is still selected one sentinel before the end of
\* a playback.
C30_Witness ==
    /\ pc = "play_wait" /\ Timer2On /\ EE_CS = 0
    /\ consecutive_ff_count = FF_THRESHOLD - 1
    /\ ee_data = <<0>>

-----------------------------------------------------------------------------
(* The empty message *)

\* C31: for the empty message the plan is exactly the three preamble
\* symbols CR, LF and the FIGS shift, 24 bits, and no character symbol.
C31_EmptyMessagePlan ==
    (gen_pc = "ret" /\ gen_text = <<>>)
    => /\ gen_bits = <<0,0,0,0,1,0,1,1>> \o <<0,0,1,0,0,0,1,1>> \o <<0,1,1,0,1,1,1,1>>
       /\ Len(gen_bits) = 24
       /\ Len(CharPositions(gen_bits)) = 0

C31_Witness ==
    /\ gen_pc = "ret" /\ gen_text = <<>>
    /\ NumSymbols(gen_bits) = 3
    /\ DataBits(Symbol(gen_bits, 3)) = baudotFIGS

-----------------------------------------------------------------------------
(* Shift codes and character codes *)

\* C32: the shift codes are 11111 and 11011, and no lookup of a character
\* in either table returns one of them.
C32_NoCharacterHasShiftCode ==
    /\ baudotLTRS = <<1,1,1,1,1>> /\ baudotFIGS = <<1,1,0,1,1>>
    /\ lk_pc = "ret"
       => /\ lk_code_c \notin {<<1,1,1,1,1>>, <<1,1,0,1,1>>}
          /\ lk_code_d \notin {<<1,1,1,1,1>>, <<1,1,0,1,1>>}

\* C32 witness: the two characters one bit away from the LTRS shift, K in
\* Letters and ( in Figures, looked up to 11110.
C32_Witness ==
    /\ lk_pc = "ret" /\ lk_mode = "FIGS"
    /\ lk_c = "(" /\ lk_code_c = <<1,1,1,1,0>>
    /\ lk_d = "K" /\ lk_code_d = <<>>

-----------------------------------------------------------------------------
(* A playback leaves the synthesizer alone *)

\* C33: while the Timer1 (DDS) interrupt is disabled, that is from the step
\* of AT+play that clears TIMSK1 up to and including the tick that restores
\* it, no step changes phaseAccumulator, phaseIncrement or setParams and no
\* DDS tick is served; the DAC is written by playback ticks only, with the
\* buffered byte.
C33_PlaybackLeavesSynthesizer ==
    [][ ~Timer1On
        => /\ phaseAccumulator' = phaseAccumulator
           /\ phaseIncrement' = phaseIncrement
           /\ setParams' = setParams
           /\ dds_ticks' = dds_ticks
           /\ dac' # dac => (Timer2On /\ dac' = DacWrite(ee_sample))
      ]_vars

\* C33 witness: a playback under way after a send during which DDS ticks
\* have moved the accumulator; the DAC holds a playback sample.
C33_Witness ==
    /\ pc = "play_wait" /\ ~Timer1On /\ Timer2On
    /\ dds_ticks >= 1 /\ phaseAccumulator # [hi |-> 0, lo |-> 0]
    /\ setParams.high = 1000
    /\ dac = DacWrite(255) /\ consecutive_ff_count >= 2

====
